---- MODULE Spec2Model ----
(***************************************************************************)
(* A model of dicom.py: load, read_dataset and read_dataset_item.          *)
(*                                                                         *)
(* The file is a sequence of bytes (0..255) and the open file object is    *)
(* the pair (file, pos).  read_dataset is recursive; its activations are   *)
(* the frames of `stack`, each holding the local list `dataset`.           *)
(* Python's None is modelled by None (<<-1>>), which is no byte string and  *)
(* no number.  An integer read from up to four bytes can exceed the        *)
(* integers of the model checker, so int.from_bytes yields the pair        *)
(* <<high 16 bits, low 16 bits>>; IntOf converts a pair below 2^31.        *)
(*                                                                         *)
(* History fields, not present in the program: every element records the   *)
(* cursor position where its tag began (off) and the cursor position after *)
(* it and its children were read (end); `truncated` records that some      *)
(* f.read(n) returned fewer than n bytes in the middle of an element.      *)
(***************************************************************************)
EXTENDS Integers, Sequences, FiniteSets, TLC

VARIABLES file, pos, pc, err, stack, ret, preamble, result, truncated

vars == <<file, pos, pc, err, stack, ret, preamble, result, truncated>>

(***************************************************************************)
(* Bounds of the input space.                                              *)
(***************************************************************************)
MaxChunks == 3
MaxCut == 12

(***************************************************************************)
(* Program constants.                                                      *)
(***************************************************************************)
UNDEFINED_LENGTH == <<65535, 65535>>

PreambleLen == 128

MagicLen == 4

MAGIC == <<68, 73, 67, 77>>

None == <<-1>>

\* Variant: the list without UL.
VR_EXPLICIT_16BIT_VLF_NoUL ==
    { <<65,69>>, <<65,83>>, <<65,84>>, <<67,83>>, <<68,65>>, <<68,83>>, <<68,84>>,
      <<70,76>>, <<70,68>>, <<73,83>>, <<76,79>>, <<76,84>>, <<80,78>>, <<83,72>>,
      <<83,76>>, <<83,83>>, <<83,84>>, <<84,77>>, <<85,73>>, <<85,83>> }

VR_EXPLICIT_16BIT_VLF ==
    { <<65,69>>, <<65,83>>, <<65,84>>, <<67,83>>, <<68,65>>, <<68,83>>, <<68,84>>,
      <<70,76>>, <<70,68>>, <<73,83>>, <<76,79>>, <<76,84>>, <<80,78>>, <<83,72>>,
      <<83,76>>, <<83,83>>, <<83,84>>, <<84,77>>, <<85,73>>, <<85,76>>, <<85,83>> }

TAG_ITEM == <<65534, 57344>>

TAG_ITEM_DELIM == <<65534, 57357>>

TAG_SEQ_DELIM == <<65534, 57565>>

(***************************************************************************)
(* Byte-level helpers: f.read(n) at a cursor, bytes slices, int.from_bytes *)
(* (little endian) and str(bytes, encoding='utf-8').                       *)
(***************************************************************************)
Min(a, b) == IF a < b THEN a ELSE b

\* f.read(n) with the cursor at p: the next n bytes, fewer at end of file.
read(f, p, n) == SubSeq(f, p + 1, p + Min(n, Len(f) - p))

\* The number a pair <<hi, lo>> stands for, when it is below 2^31.
IntOf(w) == w[1] * 65536 + w[2]

\* n < w, for a number n and a pair w.
LessThan(n, w) == IF w[1] >= 32768 THEN TRUE ELSE n < IntOf(w)

\* Variant: one byte more than the length is read.
read_len_OneMore(f, p, w) ==
    IF w[1] >= 32768 THEN read(f, p, Len(f) - p) ELSE read(f, p, IntOf(w) + 1)

\* f.read(length) for a length given as a pair.
read_len(f, p, w) ==
    IF w[1] >= 32768 THEN read(f, p, Len(f) - p) ELSE read(f, p, IntOf(w))

\* Python slice b[lo:hi].
Slice(b, lo, hi) == SubSeq(b, lo + 1, Min(hi, Len(b)))

\* Little-endian value of at most two bytes.
RECURSIVE from_bytes16(_)
from_bytes16(b) ==
    IF b = <<>> THEN 0 ELSE Head(b) + 256 * from_bytes16(Tail(b))

\* int.from_bytes(b, byteorder='little') of at most four bytes.
from_bytes(b) == << from_bytes16(Slice(b, 2, 4)), from_bytes16(Slice(b, 0, 2)) >>

\* Strict UTF-8 validity of at most two bytes.
utf8_valid(b) ==
    CASE Len(b) = 0 -> TRUE
      [] Len(b) = 1 -> b[1] < 128
      [] OTHER -> \/ (b[1] < 128 /\ b[2] < 128)
                  \/ (b[1] >= 194 /\ b[1] <= 223 /\ b[2] >= 128 /\ b[2] <= 191)

\* The decoded string as a sequence of code points.
utf8_decode(b) ==
    IF Len(b) = 2 /\ b[1] >= 128
    THEN << (b[1] - 192) * 64 + (b[2] - 128) >>
    ELSE b

(***************************************************************************)
(* The element classes.  Every constructor normalises UNDEFINED_LENGTH.    *)
(***************************************************************************)
\* Variant: the 16-bit all-ones length counts as undefined too.
NormLength_16(val_length) ==
    IF val_length # UNDEFINED_LENGTH /\ val_length # <<0, 65535>>
    THEN val_length ELSE None

NormLength(val_length) ==
    IF val_length # UNDEFINED_LENGTH THEN val_length ELSE None

DataElement(tag, val_repr, val_length, val_data, children) ==
    [cls |-> "DataElement", tag |-> tag, val_repr |-> val_repr,
     val_length |-> NormLength(val_length), val_data |-> val_data,
     children |-> children]

ItemDataElement(val_length, val_data, children) ==
    [cls |-> "ItemDataElement", tag |-> TAG_ITEM, val_repr |-> None,
     val_length |-> NormLength(val_length), val_data |-> val_data,
     children |-> children]

ItemDelimitationElement(val_length, val_data, children) ==
    [cls |-> "ItemDelimitationElement", tag |-> TAG_ITEM_DELIM, val_repr |-> None,
     val_length |-> NormLength(val_length), val_data |-> val_data,
     children |-> children]

SequenceDelimitationElement(val_length, val_data, children) ==
    [cls |-> "SequenceDelimitationElement", tag |-> TAG_SEQ_DELIM, val_repr |-> None,
     val_length |-> NormLength(val_length), val_data |-> val_data,
     children |-> children]

is_length_undefined(item) == item.val_length = None

IsDelimiter(item) ==
    item.cls = "SequenceDelimitationElement" \/ item.cls = "ItemDelimitationElement"

\* History fields of an element.
Mark(item, off, end) == item @@ [off |-> off, end |-> end]

(***************************************************************************)
(* read_dataset_item: one element read at cursor p of file f.              *)
(* kind is "none" (no more data), "item" or "error" (UnicodeDecodeError).  *)
(***************************************************************************)
\* The three reserved tags: a 4-byte length directly after the tag.
ReadSpecial(f, p, p1, short0, cls) ==
    LET lenb   == read(f, p1, 4)
        p2     == p1 + Len(lenb)
        length == from_bytes(lenb)
        data   == read_len(f, p2, length)
        p3     == p2 + Len(data)
        Make(l, d, c) ==
            CASE cls = "ItemDataElement" -> ItemDataElement(l, d, c)
              [] cls = "ItemDelimitationElement" -> ItemDelimitationElement(l, d, c)
              [] OTHER -> SequenceDelimitationElement(l, d, c)
    IN  IF length # UNDEFINED_LENGTH
        THEN [kind |-> "item", item |-> Mark(Make(length, data, <<>>), p, p3),
              pos |-> p3,
              short |-> short0 \/ Len(lenb) < 4 \/ LessThan(Len(data), length)]
        ELSE [kind |-> "item", item |-> Mark(Make(length, None, <<>>), p, p2),
              pos |-> p2, short |-> short0]

\* A generic element: VR, then a 16-bit or a 32-bit length field.
ReadGeneric(f, p, p1, short0, group_num, element_num) ==
    LET vrb    == read(f, p1, 2)
        p2     == p1 + Len(vrb)
        value_repr == utf8_decode(vrb)
        is16   == value_repr \in VR_EXPLICIT_16BIT_VLF
        skip   == IF is16 THEN <<>> ELSE read(f, p2, 2)
        p3     == p2 + Len(skip)
        lenb   == IF is16 THEN read(f, p3, 2) ELSE read(f, p3, 4)
        p4     == p3 + Len(lenb)
        length == from_bytes(lenb)
        data   == read_len(f, p4, length)
        p5     == p4 + Len(data)
        shortH == \/ short0 \/ Len(vrb) < 2
                  \/ (~is16 /\ Len(skip) < 2)
                  \/ Len(lenb) < (IF is16 THEN 2 ELSE 4)
    IN  IF ~utf8_valid(vrb)
        THEN [kind |-> "error", pos |-> p2, short |-> short0 \/ Len(vrb) < 2]
        ELSE IF length = UNDEFINED_LENGTH
        THEN [kind |-> "item",
              item |-> Mark(DataElement(<<group_num, element_num>>, value_repr,
                                        length, None, <<>>), p, p4),
              pos |-> p4, short |-> shortH]
        ELSE [kind |-> "item",
              item |-> Mark(DataElement(<<group_num, element_num>>, value_repr,
                                        length, data, <<>>), p, p5),
              pos |-> p5, short |-> shortH \/ LessThan(Len(data), length)]

\* Variant: the end of the data is never noticed.
NoMoreData_Never(tag_data) == FALSE

\* `if not tag_data`: the read of the tag returned nothing.
NoMoreData(tag_data) == tag_data = <<>>

read_dataset_item(f, p) ==
    LET tag_data == read(f, p, 4)
        p1 == p + Len(tag_data)
        group_num == IntOf(from_bytes(Slice(tag_data, 0, 2)))
        element_num == IntOf(from_bytes(Slice(tag_data, 2, 4)))
        short0 == Len(tag_data) < 4
    IN  IF NoMoreData(tag_data)
        THEN [kind |-> "none", pos |-> p, short |-> FALSE]
        ELSE IF <<group_num, element_num>> = TAG_ITEM
        THEN ReadSpecial(f, p, p1, short0, "ItemDataElement")
        ELSE IF <<group_num, element_num>> = TAG_ITEM_DELIM
        THEN ReadSpecial(f, p, p1, short0, "ItemDelimitationElement")
        ELSE IF <<group_num, element_num>> = TAG_SEQ_DELIM
        THEN ReadSpecial(f, p, p1, short0, "SequenceDelimitationElement")
        ELSE ReadGeneric(f, p, p1, short0, group_num, element_num)

(***************************************************************************)
(* The input files.  A body is a concatenation of at most MaxChunks        *)
(* chunks with up to MaxCut bytes removed from its end; a file is a        *)
(* preamble, the magic bytes and a body, or a damaged variant of it.       *)
(***************************************************************************)
B_TAG == <<8, 0, 16, 0>>

B_ITEM == <<254, 255, 0, 224>>

B_ITEM_DELIM == <<254, 255, 13, 224>>

B_SEQ_DELIM == <<254, 255, 221, 224>>

B_UNDEF == <<255, 255, 255, 255>>

B_ZERO == <<0, 0, 0, 0>>

B_ONE == <<1, 0, 0, 0>>

Chunks ==
    { B_TAG \o <<85, 73>> \o <<1, 0>> \o <<42>>,            \* UI, 16-bit length 1
      B_TAG \o <<79, 66, 0, 0>> \o B_ONE \o <<43>>,          \* OB, 32-bit length 1
      B_TAG \o <<83, 81, 0, 0>> \o B_UNDEF,                  \* SQ, undefined length
      B_TAG \o <<85, 83>> \o <<255, 255>>,                   \* US, 16-bit length FFFF
      B_TAG,                                                 \* a tag alone
      B_ITEM \o B_UNDEF,
      B_ITEM \o B_ONE \o <<44>>,
      B_ITEM_DELIM \o B_ZERO,
      B_ITEM_DELIM \o B_UNDEF,
      B_SEQ_DELIM \o B_ZERO }

RECURSIVE Concats(_)
Concats(n) ==
    IF n = 0 THEN { <<>> }
    ELSE LET S == Concats(n - 1)
         IN  S \cup { s \o c : s \in S, c \in Chunks }

CutBodies ==
    { SubSeq(b, 1, Len(b) - k) : b \in Concats(MaxChunks), k \in 0..MaxCut }

\* One generic element per VR code: one of the 21 codes of DICOM PS3.5 7.1.2
\* that take a 16-bit length, or another code.
ShortCodes ==
    { <<65,69>>, <<65,83>>, <<65,84>>, <<67,83>>, <<68,65>>, <<68,83>>, <<68,84>>,
      <<70,76>>, <<70,68>>, <<73,83>>, <<76,79>>, <<76,84>>, <<80,78>>, <<83,72>>,
      <<83,76>>, <<83,83>>, <<83,84>>, <<84,77>>, <<85,73>>, <<85,76>>, <<85,83>> }

OtherVRs ==
    { <<79,66>>, <<79,87>>, <<79,70>>, <<83,81>>, <<85,78>>, <<85,84>>,
      <<117,105>>, <<85,32>>, <<8,0>>, <<194,128>>, <<255,254>> }

VRBodies ==
    { B_TAG \o vr \o lb \o <<45, 46, 47>> :
        vr \in ShortCodes \cup OtherVRs,
        lb \in { <<2, 0, 3, 0, 0, 0>>, <<4, 0>>, <<0, 0, 4, 0, 0, 0>>,
                 <<255, 255, 255, 255, 255, 255>> } }

Zeros(n) == [i \in 1..n |-> 0]

\* A 16-bit length of FFFF with all of its 65535 payload bytes, and one more
\* element after them.
LongBody ==
    B_TAG \o <<85, 83>> \o <<255, 255>> \o Zeros(65535)
          \o B_TAG \o <<85, 73>> \o <<1, 0>> \o <<42>>

GoodFiles ==
    { Zeros(PreambleLen) \o MAGIC \o b : b \in CutBodies \cup VRBodies \cup { LongBody } }

BadFiles ==
    LET body == B_TAG \o <<85, 73>> \o <<1, 0>> \o <<42>>
    IN  { Zeros(PreambleLen) \o m \o body :
            m \in { <<88,88,88,88>>, <<68,73,67,88>>, <<100,105,99,109>>,
                    <<0,68,73,67>>, <<73,67,77,8>> } }
        \cup { Zeros(PreambleLen - 4) \o MAGIC \o body }
        \cup { Zeros(PreambleLen + 1) \o MAGIC \o body }
        \cup { SubSeq(Zeros(PreambleLen) \o MAGIC, 1, k) : k \in {0, 1, 127, 128, 129, 131} }

Files == GoodFiles \cup BadFiles

(***************************************************************************)
(* The state machine.                                                      *)
(*   pc = "start"    load has not run and no file is open                  *)
(*   pc = "loop"     the innermost read_dataset is at the top of its loop  *)
(*   pc = "returned" a read_dataset call has just returned `ret`           *)
(*   pc = "done"     load returned `result`                                *)
(*   pc = "error"    an exception `err` propagated out of load             *)
(***************************************************************************)
NoResult == [preamble |-> None, dataset |-> <<>>]

Init ==
    /\ file = <<>>
    /\ pos = 0
    /\ pc = "start"
    /\ err = "none"
    /\ stack = <<>>
    /\ ret = <<>>
    /\ preamble = None
    /\ result = NoResult
    /\ truncated = FALSE

\* Variant: only the first three magic bytes are compared.
MagicOk_Three(magic) == Slice(magic, 0, 3) = Slice(MAGIC, 0, 3)

\* `magic != b'DICM'`, negated.
MagicOk(magic) == magic = MAGIC

\* load(path), up to the call of read_dataset; f is the content of the
\* file at path.
Load ==
    /\ pc = "start"
    /\ \E f \in Files :
          LET pre   == read(f, pos, PreambleLen)
              p1    == pos + Len(pre)
              magic == read(f, p1, MagicLen)
              p2    == p1 + Len(magic)
          IN  /\ file' = f
              /\ preamble' = pre
              /\ pos' = p2
              /\ IF ~MagicOk(magic)
                 THEN /\ pc' = "error"
                      /\ err' = "InvalidDICOMFileException"
                      /\ stack' = stack
                 ELSE /\ pc' = "loop"
                      /\ err' = err
                      /\ stack' = << [dataset |-> <<>>] >>
    /\ UNCHANGED <<ret, result, truncated>>

\* The last element of a list, replaced.
SetLast(s, e) == [s EXCEPT ![Len(s)] = e]

Last(s) == s[Len(s)]

\* Variants: an Item stops the loop too; only a sequence delimiter stops it;
\* nothing stops it.
StopsLoop_Item(item) == IsDelimiter(item) \/ item.cls = "ItemDataElement"

StopsLoop_SeqOnly(item) == item.cls = "SequenceDelimitationElement"

StopsLoop_Never(item) == FALSE

\* Whether the loop of read_dataset stops after this item.
StopsLoop(item) == IsDelimiter(item)

\* One iteration of the loop of read_dataset, up to the recursive call.
ReadItem ==
    /\ pc = "loop"
    /\ LET r   == read_dataset_item(file, pos)
           top == stack[Len(stack)]
       IN  /\ pos' = r.pos
           /\ truncated' = (truncated \/ r.short)
           /\ CASE r.kind = "error" ->
                    /\ pc' = "error"
                    /\ err' = "UnicodeDecodeError"
                    /\ stack' = <<>>
                    /\ ret' = ret
                [] r.kind = "none" ->
                    /\ pc' = "returned"
                    /\ ret' = top.dataset
                    /\ stack' = SubSeq(stack, 1, Len(stack) - 1)
                    /\ err' = err
                [] OTHER ->
                    LET dataset == Append(top.dataset, r.item)
                    IN  IF is_length_undefined(r.item)
                        THEN /\ pc' = "loop"
                             /\ stack' = Append(SetLast(stack, [dataset |-> dataset]),
                                                [dataset |-> <<>>])
                             /\ UNCHANGED <<ret, err>>
                        ELSE IF StopsLoop(r.item)
                        THEN /\ pc' = "returned"
                             /\ ret' = dataset
                             /\ stack' = SubSeq(stack, 1, Len(stack) - 1)
                             /\ err' = err
                        ELSE /\ pc' = "loop"
                             /\ stack' = SetLast(stack, [dataset |-> dataset])
                             /\ UNCHANGED <<ret, err>>
    /\ UNCHANGED <<file, preamble, result>>

\* item.add_children(read_dataset(f)) and the test that follows it.
\* Variant: the children are dropped.
add_children_Dropped(item, children, p) ==
    [item EXCEPT !.end = p]

add_children(item, children, p) ==
    [item EXCEPT !.children = @ \o children, !.end = p]

Return ==
    /\ pc = "returned"
    /\ stack # <<>>
    /\ LET top     == stack[Len(stack)]
           item    == add_children(Last(top.dataset), ret, pos)
           dataset == SetLast(top.dataset, item)
       IN  IF StopsLoop(item)
           THEN /\ pc' = "returned"
                /\ ret' = dataset
                /\ stack' = SubSeq(stack, 1, Len(stack) - 1)
           ELSE /\ pc' = "loop"
                /\ ret' = <<>>
                /\ stack' = SetLast(stack, [dataset |-> dataset])
    /\ UNCHANGED <<file, pos, err, preamble, result, truncated>>

\* load, after read_dataset returned: DICOM(path, preamble, dataset).
DICOM(pre, dataset) == [preamble |-> pre, dataset |-> dataset]

Finish ==
    /\ pc = "returned"
    /\ stack = <<>>
    /\ result' = DICOM(preamble, ret)
    /\ pc' = "done"
    /\ UNCHANGED <<file, pos, err, stack, ret, preamble, truncated>>

Next == Load \/ ReadItem \/ Return \/ Finish

Spec == Init /\ [][Next]_vars

TypeOK ==
    /\ pc \in {"start", "loop", "returned", "done", "error"}
    /\ pos \in 0..Len(file)
    /\ (pc = "loop") => stack # <<>>

(***************************************************************************)
(* Trees.                                                                  *)
(***************************************************************************)
\* The elements of a list of elements and of their children, depth first.
RECURSIVE Flatten(_)
Flatten(s) ==
    IF s = <<>> THEN <<>>
    ELSE <<Head(s)>> \o Flatten(Head(s).children) \o Flatten(Tail(s))

Elems(s) == LET F == Flatten(s) IN { F[i] : i \in DOMAIN F }

\* The list a call of read_dataset has returned, in the states where one has.
Returned ==
    IF pc = "returned" THEN ret
    ELSE IF pc = "done" THEN result.dataset
    ELSE <<>>

\* Every list read_dataset returned that is part of Returned.
ReturnedLists ==
    (IF pc \in {"returned", "done"} THEN { Returned } ELSE {})
    \cup { e.children : e \in { x \in Elems(Returned) : is_length_undefined(x) } }

\* The lists under construction in the active calls of read_dataset.
FrameLists == { stack[k].dataset : k \in DOMAIN stack }

BodyStart == PreambleLen + MagicLen

\* Bytes of the header of an element: tag, VR, reserved bytes and length.
HeaderSize(e) ==
    IF e.cls # "DataElement" THEN 4 + 4
    ELSE IF e.val_repr \in ShortCodes THEN 4 + 2 + 2
    ELSE 4 + 2 + 6

\* Bytes an element accounts for: header and declared length.
ElemSize(e) ==
    HeaderSize(e) + (IF is_length_undefined(e) THEN 0 ELSE IntOf(e.val_length))

RECURSIVE SumSizes(_)
SumSizes(F) == IF F = <<>> THEN 0 ELSE ElemSize(Head(F)) + SumSizes(Tail(F))

(***************************************************************************)
(* C1: read_dataset_item, read_dataset and load fail with an error         *)
(* whenever the stream ends inside a fixed-size field (tag, VR, reserved   *)
(* bytes, length) or inside a payload of declared length; no element and   *)
(* no dataset with short field values is returned.                         *)
(***************************************************************************)
C1_TruncationFails == truncated => pc = "error"

(***************************************************************************)
(* C2: in every tree returned by read_dataset, the children of every       *)
(* element of undefined length end with a SequenceDelimitationElement or   *)
(* an ItemDelimitationElement, unless the stream was exhausted while the   *)
(* children of that element were read.                                     *)
(***************************************************************************)
C2_UndefinedEndsWithDelimiter ==
    \A e \in Elems(Returned) :
        is_length_undefined(e) =>
            \/ (e.children # <<>> /\ IsDelimiter(Last(e.children)))
            \/ e.end = Len(file)

C2_Witness ==
    /\ pc = "done"
    /\ \E e \in Elems(result.dataset) :
          /\ is_length_undefined(e)
          /\ e.children # <<>>
          /\ IsDelimiter(Last(e.children))
          /\ e.end < Len(file)

(***************************************************************************)
(* C3: for a valid file (no read came back short and no delimitation       *)
(* element stands at the top level), the elements of the tree load         *)
(* returns, depth first, cover the bytes after the magic bytes exactly:    *)
(* each element accounts for its header and its declared length, each      *)
(* element starts where the previous one ends, and the sizes add up to     *)
(* the length of the stream after the magic bytes.                         *)
(***************************************************************************)
ValidFile ==
    /\ ~truncated
    /\ \A i \in DOMAIN result.dataset : ~IsDelimiter(result.dataset[i])

C3_Coverage ==
    (pc = "done" /\ ValidFile) =>
        LET F == Flatten(result.dataset)
        IN  /\ SumSizes(F) = Len(file) - BodyStart
            /\ F # <<>> => F[1].off = BodyStart
            /\ \A i \in 1..(Len(F) - 1) : F[i + 1].off = F[i].off + ElemSize(F[i])
            /\ F # <<>> => Last(F).off + ElemSize(Last(F)) = Len(file)

C3_Witness ==
    /\ pc = "done"
    /\ ValidFile
    /\ Len(result.dataset) >= 2
    /\ \E e \in Elems(result.dataset) : e.children # <<>>

(***************************************************************************)
(* C4: for every generic element, the length is the 2-byte little-endian   *)
(* field directly after the VR exactly when the VR is one of the 21 short  *)
(* codes; for every other VR two bytes are skipped and the length is the   *)
(* 4-byte little-endian field after them.                                  *)
(***************************************************************************)
C4_LengthField ==
    \A e \in Elems(Returned) :
        e.cls = "DataElement" =>
            LET short2 == read(file, e.off + 6, 2)
                long4  == read(file, e.off + 8, 4)
            IN  IF e.val_repr \in ShortCodes
                THEN /\ e.val_length = << 0, from_bytes16(short2) >>
                     /\ e.val_data = read_len(file, e.off + 8, e.val_length)
                ELSE /\ e.val_length = NormLength(from_bytes(long4))
                     /\ ~is_length_undefined(e) =>
                            e.val_data = read_len(file, e.off + 12, e.val_length)

C4_Witness ==
    /\ pc = "done"
    /\ \E e \in Elems(result.dataset) :
          /\ e.val_repr = <<85, 73>>
          /\ read(file, e.off + 6, 2) = <<4, 0>>
          /\ e.val_length = <<0, 4>>

C4_WitnessLong ==
    /\ pc = "done"
    /\ \E e \in Elems(result.dataset) :
          /\ e.val_repr = <<79, 66>>
          /\ read(file, e.off + 6, 6) = <<0, 0, 4, 0, 0, 0>>
          /\ e.val_length = <<0, 4>>

(***************************************************************************)
(* C5: load fails with InvalidDICOMFileException whenever the 4 bytes      *)
(* after the 128-byte preamble are not DICM, also when the file is too     *)
(* short to hold them; read_dataset is not called, no element is read and  *)
(* no DICOM value is returned.                                             *)
(***************************************************************************)
C5_BadMagicFails ==
    (pc # "start" /\ SubSeq(file, 129, Min(132, Len(file))) # <<68, 73, 67, 77>>) =>
        /\ pc = "error"
        /\ err = "InvalidDICOMFileException"
        /\ stack = <<>>
        /\ ret = <<>>
        /\ result = NoResult
        /\ pos <= 132
        /\ ~truncated

C5_Witness ==
    /\ pc = "error"
    /\ err = "InvalidDICOMFileException"
    /\ Len(file) > 132
    /\ SubSeq(file, 129, 131) = <<68, 73, 67>>

(***************************************************************************)
(* C6: every element of a parsed tree satisfies exactly one of             *)
(* (a) length undefined, value data absent, children non-empty;            *)
(* (b) length defined, value data present, children empty.                 *)
(***************************************************************************)
C6_ShapeA(e) == is_length_undefined(e) /\ e.val_data = None /\ e.children # <<>>

C6_ShapeB(e) == ~is_length_undefined(e) /\ e.val_data # None /\ e.children = <<>>

C6_Original ==
    \A e \in Elems(Returned) : C6_ShapeA(e) \/ C6_ShapeB(e)

\* Amended: the children of an element of undefined length are empty exactly
\* when the stream ended right after the header of the element.
C6_ShapeA_Amended(e) ==
    /\ is_length_undefined(e)
    /\ e.val_data = None
    /\ (e.children = <<>>) <=> (e.off + HeaderSize(e) = Len(file))

C6_Amended ==
    \A e \in Elems(Returned) :
        /\ C6_ShapeA_Amended(e) \/ C6_ShapeB(e)
        /\ ~(C6_ShapeA_Amended(e) /\ C6_ShapeB(e))

C6_Witness ==
    /\ pc = "done"
    /\ \E e \in Elems(result.dataset) : is_length_undefined(e) /\ e.children = <<>>
    /\ \E e \in Elems(result.dataset) : is_length_undefined(e) /\ e.children # <<>>
    /\ \E e \in Elems(result.dataset) : ~is_length_undefined(e)

(***************************************************************************)
(* C7: every list read_dataset returns holds a delimitation element at     *)
(* most once and only as its last entry; the loop stops right after a      *)
(* delimitation element, and an Item element, also one of undefined        *)
(* length, never stops it: a returned list ends with a delimitation        *)
(* element unless the stream was exhausted.                                *)
(***************************************************************************)
C7_DelimiterOnlyLast ==
    /\ \A s \in ReturnedLists \cup FrameLists :
          \A i \in 1..(Len(s) - 1) : ~IsDelimiter(s[i])
    /\ \A k \in DOMAIN stack :
          LET s == stack[k].dataset
          IN  (s # <<>> /\ IsDelimiter(Last(s))) =>
                 (is_length_undefined(Last(s)) /\ (k < Len(stack) \/ pc = "returned"))
    /\ (pc = "returned" /\ ~(ret # <<>> /\ IsDelimiter(Last(ret)))) => pos = Len(file)

C7_Witness ==
    /\ pc = "done"
    /\ Len(result.dataset) = 2
    /\ result.dataset[1].cls = "ItemDataElement"
    /\ is_length_undefined(result.dataset[1])
    /\ result.dataset[1].children # <<>>
    /\ IsDelimiter(result.dataset[2])

(***************************************************************************)
(* C8: read_dataset terminates on every finite stream: every call of       *)
(* read_dataset_item returns "no element" or advances the cursor by at     *)
(* least one byte, so the number of elements read and the recursion depth  *)
(* are bounded by the stream length, and the parse ends by stream          *)
(* exhaustion, by a delimitation element or by an error.                   *)
(***************************************************************************)
RECURSIVE CountFrames(_)
CountFrames(st) ==
    IF st = <<>> THEN 0
    ELSE Len(Flatten(Head(st).dataset)) + CountFrames(Tail(st))

ElementsRead == CountFrames(stack) + Len(Flatten(Returned))

C8_Progress ==
    [][pc = "loop" =>
          \/ pos' > pos
          \/ (pos' = pos /\ pos = Len(file) /\ pc' = "returned")]_vars

C8_Bounded ==
    (pc \in {"loop", "returned", "done"}) =>
        /\ ElementsRead <= pos - BodyStart
        /\ Len(stack) <= 1 + (pos - BodyStart)
        /\ pos <= Len(file)

C8_Ending ==
    (pc = "done") =>
        \/ pos = Len(file)
        \/ (result.dataset # <<>> /\ IsDelimiter(Last(result.dataset)))

\* A measure that every step of the parse decreases and that is never
\* negative: no behaviour takes infinitely many steps.
C8_Variant ==
    IF pc \in {"done", "error"} THEN 0
    ELSE 3 * (Len(file) - pos) + 2 * Len(stack) + (IF pc = "returned" THEN 1 ELSE 0)

C8_Decreases == [][pc # "start" => C8_Variant' < C8_Variant]_vars

C8_Terminates ==
    /\ C8_Progress
    /\ C8_Decreases
    /\ [](C8_Bounded /\ C8_Ending /\ C8_Variant >= 0 /\ (pc = "loop" => stack # <<>>))

C8_Witness ==
    /\ pc = "done"
    /\ Len(Flatten(result.dataset)) >= 3
    /\ \E e \in Elems(result.dataset) :
          \E c \in Elems(e.children) : is_length_undefined(c)

(***************************************************************************)
(* C9: a generic element whose VR is one of the 21 short codes never has   *)
(* undefined length: the length bytes FF FF give the defined length 65535, *)
(* a payload read and no children; only elements with a 4-byte length      *)
(* field are stored with undefined length.                                 *)
(***************************************************************************)
C9_ShortNeverUndefined ==
    \A s \in { Returned } \cup FrameLists :
      \A e \in Elems(s) :
        /\ (e.cls = "DataElement" /\ e.val_repr \in ShortCodes) =>
              /\ ~is_length_undefined(e)
              /\ e.val_length[1] = 0
              /\ e.val_data # None
              /\ e.children = <<>>
              /\ read(file, e.off + 6, 2) = <<255, 255>> =>
                    /\ e.val_length = <<0, 65535>>
                    /\ e.val_data = read(file, e.off + 8, 65535)
                    /\ e.end = Min(e.off + 8 + 65535, Len(file))
        /\ is_length_undefined(e) =>
              /\ (e.cls = "DataElement" => e.val_repr \notin ShortCodes)
              /\ read(file, e.off + HeaderSize(e) - 4, 4) = <<255, 255, 255, 255>>

C9_Witness ==
    /\ pc = "done"
    /\ \E e \in Elems(result.dataset) :
          /\ e.cls = "DataElement"
          /\ e.val_repr \in ShortCodes
          /\ read(file, e.off + 6, 2) = <<255, 255>>
          /\ e.val_length = <<0, 65535>>
          /\ e.val_data # <<>>

C9_WitnessFull ==
    /\ pc = "done"
    /\ ~truncated
    /\ Len(result.dataset) = 2
    /\ result.dataset[1].val_length = <<0, 65535>>
    /\ Len(result.dataset[1].val_data) = 65535

====
